---- MODULE Spec2Model ----
(***************************************************************************)
(* Acoustic feature extraction of backend/app.py: the /extract_features    *)
(* handler and the three functions it calls (compute_basic_features,       *)
(* compute_mfcc, extract_praat_features).                                  *)
(*                                                                         *)
(* Floats are carried as exact rationals [n, d] (d > 0).  The numeric      *)
(* kernels of the third-party libraries (scipy periodogram, numpy fft,     *)
(* Praat) are not part of the repository: what they answer to one call is  *)
(* an input of the model (lib), drawn from bounded sets.                   *)
(***************************************************************************)
EXTENDS Integers, Sequences, FiniteSets, TLC

\* ------------------------------------------------------------------ bounds
MaxPayload == 4        \* bytes after the header in an uploaded buffer
MaxDurTicks == 4       \* clip durations 0 .. MaxDurTicks * 5 ms (pure-function check)
MaxPulses == 2         \* glottal pulses the PointProcess may hold
MaxMag == 5            \* length of the magnitude array (pure-function check)
MaxCoeffs == 3         \* num_coeffs of compute_mfcc (pure-function check)
MaxLen == 4            \* samples of compute_basic_features (pure-function check)
NumReq == 3            \* requests in flight (concurrency check)

\* ------------------------------------------------------- program constants
HeaderSize == 44
Int16Scale == 32768
SampleRate == 16000
NumCoeffs == 13
ClampLow == 80
ClampHigh == 200

\* -------------------------------------------------------------- python values
\* A float, as the exact rational n/d.
F(n, d) == [n |-> n, d |-> d]
Zero == F(0, 1)
IsFloat(v) == DOMAIN v = {"n", "d"}
RLess(a, b) == a.n * b.d < b.n * a.d
REq(a, b) == a.n * b.d = b.n * a.d
RLeq(a, b) == a.n * b.d <= b.n * a.d
RMul(a, b) == F(a.n * b.n, a.d * b.d)
\* a / b, for b > 0
RDiv(a, b) == F(a.n * b.d, a.d * b.n)
\* Python's max(a, b) and min(a, b): the first argument unless the second is
\* strictly larger (smaller).
PyMax(a, b) == IF RLess(a, b) THEN b ELSE a
PyMin(a, b) == IF RLess(b, a) THEN b ELSE a

RECURSIVE SumSeq(_)
SumSeq(s) == IF s = <<>> THEN 0 ELSE Head(s) + SumSeq(Tail(s))
RECURSIVE ProdSeq(_)
ProdSeq(s) == IF s = <<>> THEN 1 ELSE Head(s) * ProdSeq(Tail(s))
RECURSIVE Power(_, _)
Power(b, e) == IF e = 0 THEN 1 ELSE b * Power(b, e - 1)
SeqMax(s) == CHOOSE m \in {s[i] : i \in 1..Len(s)} : \A i \in 1..Len(s) : s[i] <= m
SeqMin(s) == CHOOSE m \in {s[i] : i \in 1..Len(s)} : \A i \in 1..Len(s) : m <= s[i]
\* Python's slice s[a:b] for 0 <= a, 0 <= b (0-based, end exclusive, clipped).
Slice(s, a, b) ==
    LET hi == IF b < Len(s) THEN b ELSE Len(s)
    IN  IF a >= hi THEN <<>> ELSE SubSeq(s, a + 1, hi)
\* np.mean of a non-empty list of integers.
Mean(s) == F(SumSeq(s), Len(s))

\* ------------------------------------------------------------- PCM decoding
\* A decoder that reads the samples as unsigned 16-bit values.
Int16LE_unsigned(lo, hi) == lo + 256 * hi
\* One little-endian two's-complement int16 from its two bytes.
Int16LE(lo, hi) == ((lo + 256 * hi + 32768) % 65536) - 32768
\* data[44:]
StripHeader(data) == Slice(data, HeaderSize, Len(data))
\* np.frombuffer(audio_data, dtype=np.int16): raises ValueError when the buffer
\* size is no multiple of the element size.
FromBufferRaises(audio) == Len(audio) % 2 # 0
FromBuffer(audio) ==
    [k \in 1..(Len(audio) \div 2) |-> Int16LE(audio[2 * k - 1], audio[2 * k])]
\* .astype(np.float32) / 32768.0: exact for every int16.
Normalize(ints) == [k \in 1..Len(ints) |-> F(ints[k], Int16Scale)]


\* ------------------------------------------------------ library outcomes
\* What one call into a library does: it raises, or it returns a value.
Raise == [k |-> "raise"]
Falsy == [k |-> "falsy"]
Ok(v) == [k |-> "ok", v |-> v]
\* A per-frame value of a Praat track: a number of Hz (0 stands for Praat's
\* undefined, which like 0 fails "> 0"), or Python's None.
Hz(h) == [some |-> TRUE, hz |-> h]
NoHz == [some |-> FALSE, hz |-> 0]

\* --------------------------------------------------- compute_basic_features
\* np.sqrt(np.mean(np.square(x))) of samples n_k / 32768, carried exactly as
\* the float sqrt((hi * 32768 + lo) / (cnt * 32768^2)): the sum of squares is
\* split in two limbs, as it does not fit one machine integer.
SquareHi(x) == SumSeq([k \in 1..Len(x) |-> (x[k].n * x[k].n) \div Int16Scale])
SquareLo(x) == SumSeq([k \in 1..Len(x) |-> (x[k].n * x[k].n) % Int16Scale])
Rms(x) == IF Len(x) > 0 THEN [n |-> <<SquareHi(x), SquareLo(x)>>, d |-> Len(x)]
          ELSE [n |-> <<0, 0>>, d |-> 1]
\* A sign test that takes zero for negative.
SignBit_zero_negative(v) == v.n <= 0
\* np.signbit of a sample (a sample decoded from an int16 is never -0.0).
SignBit(v) == v.n < 0
\* np.sum(np.abs(np.diff(np.signbit(x)))): np.diff of booleans is their xor.
ZeroCrossings(x) ==
    IF Len(x) < 2 THEN 0
    ELSE Cardinality({k \in 1..(Len(x) - 1) : SignBit(x[k]) # SignBit(x[k + 1])})
Zcr(x) == IF Len(x) > 1 THEN F(ZeroCrossings(x), Len(x) - 1) ELSE Zero
\* np.maximum(psd, 1e-20): the bins are in units of 1e-20.
FloorPsd(psd) == [k \in 1..Len(psd) |-> IF psd[k] < 1 THEN 1 ELSE psd[k]]
\* freqs[k] = k * fs / N for k = 0 .. N // 2 (bin k of the model is freqs[k-1]).
Centroid(psd, N) ==
    IF SumSeq(psd) > 0
    THEN F(SampleRate * SumSeq([k \in 1..Len(psd) |-> (k - 1) * psd[k]]), N * SumSeq(psd))
    ELSE Zero
\* geometric mean / arithmetic mean of B bins, carried as its B-th power
\* (prod * B^B / sum^B), which is rational.
Flatness(psd) ==
    IF SumSeq(psd) > 0
    THEN F(ProdSeq(psd) * Power(Len(psd), Len(psd)), Power(SumSeq(psd), Len(psd)))
    ELSE Zero
\* periodogram is what signal.periodogram does on x: Raise, or Ok(bins).
compute_basic_features(x, periodogram) ==
    IF Len(x) = 0
    THEN Ok([rms |-> Rms(x), zcr |-> Zcr(x), spectralCentroid |-> Zero,
             spectralFlatness |-> Zero])
    ELSE IF periodogram.k = "raise" THEN Raise
    ELSE LET psd == FloorPsd(periodogram.v)
         IN  Ok([rms |-> Rms(x), zcr |-> Zcr(x),
                 spectralCentroid |-> Centroid(psd, Len(x)),
                 spectralFlatness |-> Flatness(psd)])

\* ------------------------------------------------------------- compute_mfcc
\* int((i * M) / num_coeffs) for non-negative operands.
BandStart(i, M, num_coeffs) == (i * M) \div num_coeffs
\* A band that runs one index too far.
BandEnd_inclusive(i, M, num_coeffs) == ((i + 1) * M) \div num_coeffs + 1
BandEnd(i, M, num_coeffs) == ((i + 1) * M) \div num_coeffs
\* One coefficient: the mean of magnitude[start:end], 0.0 when end <= start.
Coeff(magnitude, i, num_coeffs) ==
    LET start == BandStart(i, Len(magnitude), num_coeffs)
        end == BandEnd(i, Len(magnitude), num_coeffs)
    IN  IF end > start THEN Mean(Slice(magnitude, start, end)) ELSE Zero
\* A fallback that returns an empty list.
ZeroVector_empty(num_coeffs) == <<>>
ZeroVector(num_coeffs) == [i \in 1..num_coeffs |-> Zero]
\* A loop that appends a coefficient only for a non-empty band.
compute_mfcc_skip_empty(fft, num_coeffs) ==
    IF fft.k = "raise" THEN ZeroVector(num_coeffs)
    ELSE LET magnitude == Slice(fft.v, 0, Len(fft.v) \div 2)
             kept == {i \in 1..num_coeffs :
                         BandEnd(i - 1, Len(magnitude), num_coeffs)
                             > BandStart(i - 1, Len(magnitude), num_coeffs)}
         IN  [j \in 1..Cardinality(kept) |->
                 Coeff(magnitude,
                       (CHOOSE i \in kept : Cardinality({q \in kept : q < i}) = j - 1) - 1,
                       num_coeffs)]
\* fft is what np.abs(np.fft.fft(samples)) gives: Raise, or Ok(one magnitude per
\* input sample).
compute_mfcc(fft, num_coeffs) ==
    IF fft.k = "raise" THEN ZeroVector(num_coeffs)
    ELSE LET magnitude == Slice(fft.v, 0, Len(fft.v) \div 2)
         IN  [i \in 1..num_coeffs |-> Coeff(magnitude, i - 1, num_coeffs)]


\* --------------------------------------------------- extract_praat_features
\* praat is what Praat/Parselmouth does for one clip, call by call:
\*   sound    Raise | Ok(duration in seconds)      parselmouth.Sound, sound.duration
\*   pitch    Raise | Falsy | Ok(track)            sound.to_pitch_ac, get_value_at_time
\*   formant  Raise | Falsy | Ok(track of [f1, f2]) sound.to_formant_burg
\*   pp       Raise | Falsy | Ok(number of points)  "To PointProcess (periodic, cc)"
\*   jitter   Raise | Ok(value)                    "Get jitter (local)"
\*   shimmer  Raise | Ok(value)                    "Get shimmer (local)"
\* len(np.arange(0, duration, 0.01)): the number of frame times.
NumFrames(duration) == (duration.n * 100 + duration.d - 1) \div duration.d

RECURSIVE VoicedValues(_)
\* The values v of a track with "v is not None and v > 0", in order.
VoicedValues(track) ==
    IF track = <<>> THEN <<>>
    ELSE IF Head(track).some /\ Head(track).hz > 0
         THEN <<Head(track).hz>> \o VoicedValues(Tail(track))
         ELSE VoicedValues(Tail(track))

PraatDefaults ==
    [f0_mean |-> Zero, f0_range |-> Zero, jitter |-> Zero, shimmer |-> Zero,
     f1 |-> Zero, f2 |-> Zero, speech_rate |-> Zero]

\* f0_values of lines 75-101.
F0Values(praat) ==
    IF praat.pitch.k = "ok" THEN VoicedValues(praat.pitch.v) ELSE <<>>
F0Mean(f0_values) == IF Len(f0_values) > 0 THEN Mean(f0_values) ELSE Zero
F0Range(f0_values) ==
    IF Len(f0_values) > 0 THEN F(SeqMax(f0_values) - SeqMin(f0_values), 1) ELSE Zero

\* f1_mean, f2_mean of lines 110-127.
FormantMean(praat, which) ==
    IF praat.formant.k = "ok"
    THEN LET values == VoicedValues([i \in 1..Len(praat.formant.v) |-> praat.formant.v[i][which]])
         IN  IF Len(values) > 0 THEN Mean(values) ELSE Zero
    ELSE Zero

\* Lines 143-147 and 150-154: one perturbation measure in percent, 0.0 when
\* the Praat call raises.
Percent(call) == IF call.k = "ok" THEN F(call.v * 100, 1) ELSE Zero
\* Lines 129-158: <<jitter, shimmer>>.
Perturbation(praat) ==
    IF praat.pp.k = "raise" THEN <<Zero, Zero>>
    ELSE IF praat.pp.k = "ok" /\ praat.pp.v > 1
         THEN <<Percent(praat.jitter), Percent(praat.shimmer)>>
         ELSE <<Zero, Zero>>

\* Lines 160-171.
SpeechRate(voiced_frames, duration) ==
    IF voiced_frames > 0
    THEN LET voiced_duration == F(voiced_frames, 100)
             words_estimate == RDiv(voiced_duration, F(1, 2))
             speech_rate == IF duration.n > 0
                            THEN RMul(RDiv(words_estimate, duration), F(60, 1))
                            ELSE Zero
         IN  PyMax(F(ClampLow, 1), PyMin(F(ClampHigh, 1), speech_rate))
    ELSE Zero

\* A raise of Sound, to_pitch_ac or to_formant_burg leaves the outer try block
\* (lines 62, 182-193); the PointProcess calls have try blocks of their own.
OuterFault(praat) ==
    \/ praat.sound.k = "raise"
    \/ praat.pitch.k = "raise"
    \/ praat.formant.k = "raise"

extract_praat_features(praat) ==
    IF OuterFault(praat) THEN PraatDefaults
    ELSE LET f0_values == F0Values(praat)
             pert == Perturbation(praat)
         IN  [f0_mean |-> F0Mean(f0_values),
              f0_range |-> F0Range(f0_values),
              jitter |-> pert[1],
              shimmer |-> pert[2],
              f1 |-> FormantMean(praat, "f1"),
              f2 |-> FormantMean(praat, "f2"),
              speech_rate |-> SpeechRate(Len(f0_values), praat.sound.v)]


\* ---------------------------------------------------- the library's answers
PsdVals == {0, 3}
MagVals == {0, 1, 4}
F0Vals == {NoHz, Hz(0), Hz(100), Hz(220)}
FormantVals == {[f1 |-> NoHz, f2 |-> NoHz], [f1 |-> Hz(0), f2 |-> Hz(1500)],
                [f1 |-> Hz(500), f2 |-> Hz(1500)]}
CallOutcomes == {Raise, Ok(0), Ok(2)}

\* signal.periodogram on N > 0 samples: N // 2 + 1 bins, or a fault.
PsdOutcomes(N) == {Raise} \cup {Ok(b) : b \in [1..(N \div 2 + 1) -> PsdVals]}
\* |fft| of N real samples is symmetric: bin N - k equals bin k.
Mirror(half, N) == [k \in 1..N |-> IF k <= N \div 2 + 1 THEN half[k] ELSE half[N - k + 2]]
\* np.fft.fft raises on zero data points.
FftOutcomes(N, vals) ==
    IF N = 0 THEN {Raise}
    ELSE {Raise} \cup {Ok(Mirror(h, N)) : h \in [1..(N \div 2 + 1) -> vals]}
SoundFault ==
    [sound |-> Raise, pitch |-> Raise, formant |-> Raise, pp |-> Raise,
     jitter |-> Raise, shimmer |-> Raise]
\* The jitter and shimmer calls are made only on more than one pulse; a clip
\* without a frame holds no pulse.
PulseOutcomes(frames) ==
    {[pp |-> p, jitter |-> Raise, shimmer |-> Raise] :
        p \in {Raise, Falsy, Ok(0)} \cup (IF frames > 0 THEN {Ok(1)} ELSE {})}
    \cup {[pp |-> Ok(n), jitter |-> j, shimmer |-> h] :
        n \in (IF frames > 0 THEN 2..MaxPulses ELSE {}),
        j \in CallOutcomes, h \in CallOutcomes}
\* Every answer of Praat for a clip of the given duration: the tracks hold one
\* value per frame time.
PraatOutcomes(duration) ==
    {[sound |-> Ok(duration), pitch |-> pt, formant |-> fm, pp |-> pu.pp,
      jitter |-> pu.jitter, shimmer |-> pu.shimmer] :
        pt \in {Raise, Falsy} \cup {Ok(t) : t \in [1..NumFrames(duration) -> F0Vals]},
        fm \in {Raise, Falsy} \cup {Ok(t) : t \in [1..NumFrames(duration) -> FormantVals]},
        pu \in PulseOutcomes(NumFrames(duration))}
\* sound.duration of N samples at 16 kHz.
Duration(N) == F(N, SampleRate)
\* A voiced clip without faults, and one fault of each library.
Benign(N) ==
    [psd |-> Ok([k \in 1..(N \div 2 + 1) |-> 3]),
     fft |-> IF N = 0 THEN Raise ELSE Ok([k \in 1..N |-> 4]),
     praat |-> IF N = 0 THEN SoundFault
               ELSE [sound |-> Ok(Duration(N)),
                     pitch |-> Ok([i \in 1..NumFrames(Duration(N)) |-> Hz(100)]),
                     formant |-> Ok([i \in 1..NumFrames(Duration(N)) |->
                                        [f1 |-> Hz(500), f2 |-> Hz(1500)]]),
                     pp |-> Ok(2), jitter |-> Ok(2), shimmer |-> Ok(2)]]
LibFew(N) ==
    {Benign(N), [Benign(N) EXCEPT !.psd = Raise], [Benign(N) EXCEPT !.fft = Raise],
     [Benign(N) EXCEPT !.praat = SoundFault]}

\* ------------------------------------------------------------ the uploads
ByteVals == {0, 127, 128, 255}
\* The header is not validated: every byte of it is an 'R'.
Header == [i \in 1..HeaderSize |-> 82]
Payloads == UNION {[1..n -> ByteVals] : n \in 0..MaxPayload}
\* request.files without a "file" field, or the bytes file.read() returns.
NoFile == [file |-> FALSE, data |-> <<>>]
File(bytes) == [file |-> TRUE, data |-> bytes]
Uploads ==
    {NoFile} \cup {File(SubSeq(Header, 1, n)) : n \in {0, 1, HeaderSize - 1}}
    \cup {File(Header \o p) : p \in Payloads}
\* Uploads checked against every answer of the libraries.
FewUploads ==
    {File(Header), File(Header \o <<255, 127>>), File(Header \o <<0, 128, 255, 127>>)}
NumSamples(up) == Len(StripHeader(up.data)) \div 2


\* ------------------------------------------------------------ the requests
Req == 1..NumReq

VARIABLES
    upload,          \* upload[r]: what request r carries
    lib,             \* lib[r]: what the libraries answer to the calls of request r
    pc,              \* pc[r]: where the handler of request r stands
    samples,         \* the handler's locals
    basic,
    mfcc,
    praat_features,
    called,          \* called[r]: the functions the handler has invoked so far
    response,        \* response[r]: what the handler returned
    fnIn,            \* a function under check alone: its arguments
    fnOut            \* ... and its result

vars == <<upload, lib, pc, samples, basic, mfcc, praat_features, called, response,
          fnIn, fnOut>>
handlerVars == <<upload, lib, pc, samples, basic, mfcc, praat_features, called, response>>

NoResponse == [status |-> 0]
\* jsonify({"error": ...}), status
Error(status) == [status |-> status, error |-> TRUE]
\* jsonify({...}) of lines 344-359
Record(b, m, p) ==
    [status |-> 200,
     body |-> [rms |-> b.rms, zcr |-> b.zcr, spectralCentroid |-> b.spectralCentroid,
               spectralFlatness |-> b.spectralFlatness, mfcc |-> m,
               f0_mean |-> p.f0_mean, f0_range |-> p.f0_range, jitter |-> p.jitter,
               shimmer |-> p.shimmer, f1 |-> p.f1, f2 |-> p.f2,
               speech_rate |-> p.speech_rate]]

Finish(r, resp) ==
    /\ response' = [response EXCEPT ![r] = resp]
    /\ pc' = [pc EXCEPT ![r] = "done"]

\* Lines 299-304: the file field and the empty file.
Receive(r) ==
    /\ pc[r] = "start"
    /\ IF ~upload[r].file \/ upload[r].data = <<>>
       THEN Finish(r, Error(400))
       ELSE /\ pc' = [pc EXCEPT ![r] = "decode"]
            /\ UNCHANGED response
    /\ UNCHANGED <<upload, lib, samples, basic, mfcc, praat_features, called, fnIn, fnOut>>

\* A buffer kept at module level: the handler decodes the bytes of the oldest
\* request still being handled.
AudioData_shared(r) ==
    LET busy == {q \in Req : pc[q] \in {"decode", "basic", "mfcc", "praat", "respond"}}
    IN  StripHeader(upload[CHOOSE q \in busy : \A o \in busy : q <= o].data)
\* Line 308.
AudioData(r) == StripHeader(upload[r].data)

\* Lines 308-310; a raise goes to lines 360-364.
Decode(r) ==
    /\ pc[r] = "decode"
    /\ IF FromBufferRaises(AudioData(r))
       THEN /\ Finish(r, Error(500))
            /\ UNCHANGED samples
       ELSE /\ samples' = [samples EXCEPT ![r] = Normalize(FromBuffer(AudioData(r)))]
            /\ pc' = [pc EXCEPT ![r] = "basic"]
            /\ UNCHANGED response
    /\ UNCHANGED <<upload, lib, basic, mfcc, praat_features, called, fnIn, fnOut>>

\* Line 313.
Basic(r) ==
    /\ pc[r] = "basic"
    /\ called' = [called EXCEPT ![r] = @ \cup {"compute_basic_features"}]
    /\ LET res == compute_basic_features(samples[r], lib[r].psd)
       IN  IF res.k = "raise"
           THEN /\ Finish(r, Error(500))
                /\ UNCHANGED basic
           ELSE /\ basic' = [basic EXCEPT ![r] = res.v]
                /\ pc' = [pc EXCEPT ![r] = "mfcc"]
                /\ UNCHANGED response
    /\ UNCHANGED <<upload, lib, samples, mfcc, praat_features, fnIn, fnOut>>

\* Line 314.
Mfcc(r) ==
    /\ pc[r] = "mfcc"
    /\ called' = [called EXCEPT ![r] = @ \cup {"compute_mfcc"}]
    /\ mfcc' = [mfcc EXCEPT ![r] = compute_mfcc(lib[r].fft, NumCoeffs)]
    /\ pc' = [pc EXCEPT ![r] = "praat"]
    /\ UNCHANGED <<upload, lib, samples, basic, praat_features, response, fnIn, fnOut>>

\* Line 317.
Praat(r) ==
    /\ pc[r] = "praat"
    /\ called' = [called EXCEPT ![r] = @ \cup {"extract_praat_features"}]
    /\ praat_features' = [praat_features EXCEPT ![r] = extract_praat_features(lib[r].praat)]
    /\ pc' = [pc EXCEPT ![r] = "respond"]
    /\ UNCHANGED <<upload, lib, samples, basic, mfcc, response, fnIn, fnOut>>

\* Lines 324-336: a ":.6f" or ":.2f" format of a value that is no float raises.
FormatRaises(b, p) ==
    \/ \E f \in {"rms", "zcr", "spectralCentroid", "spectralFlatness"} : ~IsFloat(b[f])
    \/ \E f \in {"f0_mean", "f0_range", "jitter", "shimmer", "f1", "f2", "speech_rate"} :
          ~IsFloat(p[f])

\* Lines 319-359; a raise goes to lines 360-364.
Respond(r) ==
    /\ pc[r] = "respond"
    /\ IF FormatRaises(basic[r], praat_features[r])
       THEN Finish(r, Error(500))
       ELSE Finish(r, Record(basic[r], mfcc[r], praat_features[r]))
    /\ UNCHANGED <<upload, lib, samples, basic, mfcc, praat_features, called, fnIn, fnOut>>

\* The handler's state before it runs.
Fresh(active, up, lb) ==
    /\ upload = up
    /\ lib = lb
    /\ pc = [r \in Req |-> IF r \in active THEN "start" ELSE "off"]
    /\ samples = [r \in Req |-> <<>>]
    /\ basic = [r \in Req |-> <<>>]
    /\ mfcc = [r \in Req |-> <<>>]
    /\ praat_features = [r \in Req |-> <<>>]
    /\ called = [r \in Req |-> {}]
    /\ response = [r \in Req |-> NoResponse]

\* One request in flight, the others never sent.
Single(u, l) ==
    /\ fnIn = <<>>
    /\ fnOut = <<>>
    /\ Fresh({1}, [r \in Req |-> IF r = 1 THEN u ELSE NoFile],
                  [r \in Req |-> IF r = 1 THEN l ELSE <<>>])

\* One request: every upload with a few answers of the libraries, and a few
\* uploads with every answer.
Init ==
    \/ \E u \in Uploads : \E l \in LibFew(NumSamples(u)) : Single(u, l)
    \/ \E u \in FewUploads :
          \E ps \in PsdOutcomes(NumSamples(u)), ff \in FftOutcomes(NumSamples(u), {0, 4}),
             pr \in {SoundFault} \cup PraatOutcomes(Duration(NumSamples(u))) :
                Single(u, [psd |-> ps, fft |-> ff, praat |-> pr])

Step(r) == Receive(r) \/ Decode(r) \/ Basic(r) \/ Mfcc(r) \/ Praat(r) \/ Respond(r)
Next == \E r \in Req : Step(r)
Spec == Init /\ [][Next]_vars


\* ------------------------------------------------- requests side by side
ConcUploads == {File(Header \o <<255, 127>>), File(Header \o <<0, 128>>)}
ConcLibs(N) == {Benign(N), [Benign(N) EXCEPT !.praat = SoundFault]}
\* NumReq requests in flight at once, their steps interleaved in every order.
\* The libraries are functions of their input: requests that carry the same
\* bytes get the same answers.
InitConc ==
    /\ fnIn = <<>>
    /\ fnOut = <<>>
    /\ \E ups \in [Req -> ConcUploads] :
          \E answers \in [ConcUploads -> UNION {ConcLibs(NumSamples(u)) : u \in ConcUploads}] :
             /\ \A u \in ConcUploads : answers[u] \in ConcLibs(NumSamples(u))
             /\ Fresh(Req, ups, [r \in Req |-> answers[ups[r]]])
SpecConc == InitConc /\ [][Next]_vars

\* ------------------------------------------------ the functions on their own
NoRequest == Fresh({}, [r \in Req |-> NoFile], [r \in Req |-> <<>>])
Pending == [done |-> FALSE]
Returned(v) == [done |-> TRUE, ret |-> v]

\* extract_praat_features on clips of 0, 5, 10, ... ms.
DurSet == {F(5 * t, 1000) : t \in 0..MaxDurTicks}
InitPraat ==
    /\ NoRequest
    /\ fnOut = Pending
    /\ \E d \in DurSet : \E pr \in {SoundFault} \cup PraatOutcomes(d) :
          fnIn = [praat |-> pr]
CallPraat ==
    /\ fnOut = Pending
    /\ fnOut' = Returned(extract_praat_features(fnIn.praat))
    /\ UNCHANGED <<handlerVars, fnIn>>
SpecPraat == InitPraat /\ [][CallPraat]_vars

\* compute_mfcc on every spectrum of up to MaxMag positive-frequency bins, for
\* small coefficient counts and for the 13 of the handler.
InitMfcc ==
    /\ NoRequest
    /\ fnOut = Pending
    /\ \E N \in 0..(2 * MaxMag + 1), K \in (1..MaxCoeffs) \cup {NumCoeffs} :
          \E ff \in FftOutcomes(N, MagVals) : fnIn = [fft |-> ff, num_coeffs |-> K, N |-> N]
CallMfcc ==
    /\ fnOut = Pending
    /\ fnOut' = Returned(compute_mfcc(fnIn.fft, fnIn.num_coeffs))
    /\ UNCHANGED <<handlerVars, fnIn>>
SpecMfcc == InitMfcc /\ [][CallMfcc]_vars

\* compute_basic_features on every waveform of up to MaxLen samples.
SampleVals == {F(n, Int16Scale) : n \in {0 - 32768, 0 - 1, 0, 32767}}
InitBasic ==
    /\ NoRequest
    /\ fnOut = Pending
    /\ \E N \in 0..MaxLen : \E x \in [1..N -> SampleVals], ps \in PsdOutcomes(N) :
          fnIn = [x |-> x, periodogram |-> ps]
CallBasic ==
    /\ fnOut = Pending
    /\ fnOut' = Returned(compute_basic_features(fnIn.x, fnIn.periodogram))
    /\ UNCHANGED <<handlerVars, fnIn>>
SpecBasic == InitBasic /\ [][CallBasic]_vars


\* ================================================================ the claims
Handled(r) == pc[r] = "done"
IsError(resp) == DOMAIN resp = {"status", "error"} /\ resp.status \in {400, 500}
RecordFields ==
    {"rms", "zcr", "spectralCentroid", "spectralFlatness", "mfcc", "f0_mean",
     "f0_range", "jitter", "shimmer", "f1", "f2", "speech_rate"}
IsCompleteRecord(resp) ==
    /\ DOMAIN resp = {"status", "body"}
    /\ resp.status = 200
    /\ DOMAIN resp.body = RecordFields
    /\ \A f \in RecordFields \ {"mfcc"} : IsFloat(resp.body[f])
    /\ DOMAIN resp.body.mfcc = 1..13
    /\ \A i \in 1..13 : IsFloat(resp.body.mfcc[i])
\* The upload holds no sample after the header: at most 44 bytes.
NoSamples(up) == up.file /\ Len(up.data) <= 44

\* C1: an upload of at most 44 bytes (no sample after the header) is answered
\* with an error, and the handler calls none of compute_basic_features,
\* compute_mfcc and extract_praat_features for it.
C1_EmptyPostHeaderRejected ==
    \A r \in Req :
        NoSamples(upload[r]) =>
            /\ called[r] = {}
            /\ Handled(r) => IsError(response[r])

Signed16(lo, hi) == IF lo + 256 * hi >= 32768 THEN lo + 256 * hi - 65536 ELSE lo + 256 * hi
Decoded(r) == pc[r] \in {"basic", "mfcc", "praat", "respond", "done"}
\* C9: of an upload of 44 + 2n bytes the waveform has n samples, sample k
\* (from 0) is the signed little-endian 16-bit value of bytes 44+2k, 45+2k
\* over 32768, and lies in [-1, 1); an upload with an odd number of bytes
\* after the header is answered with an error.
C9_Decoding ==
    \A r \in Req :
        LET data == upload[r].data
            n == (Len(data) - 44) \div 2
        IN  /\ (Decoded(r) /\ Len(data) >= 44 /\ (Len(data) - 44) % 2 = 0) =>
                  /\ Len(samples[r]) = n
                  /\ \A k \in 0..(n - 1) :
                        /\ samples[r][k + 1].d = 32768
                        /\ samples[r][k + 1].n = Signed16(data[44 + 2 * k + 1], data[44 + 2 * k + 2])
                        /\ 0 - 32768 <= samples[r][k + 1].n
                        /\ samples[r][k + 1].n < 32768
            /\ (Decoded(r) /\ Len(data) > 44 /\ (Len(data) - 44) % 2 = 1) =>
                  Handled(r) /\ IsError(response[r])
\* Two samples decoded, -1.0 and 32767/32768, and a record returned.
C9_Witness ==
    /\ Handled(1)
    /\ Len(upload[1].data) = 48
    /\ samples[1] = <<F(0 - 32768, 32768), F(32767, 32768)>>
    /\ IsCompleteRecord(response[1])


\* ------------------------------------------ extract_praat_features alone
PraatReturned == fnOut.done
\* The voiced frames the frame loop of lines 84-87 found.
Voiced(praat) ==
    IF praat.sound.k = "ok" /\ praat.pitch.k = "ok"
    THEN Cardinality({i \in 1..Len(praat.pitch.v) :
                         praat.pitch.v[i].some /\ praat.pitch.v[i].hz > 0})
    ELSE 0
PitchFault(praat) == praat.pitch.k = "raise"
FormantFault(praat) == praat.formant.k = "raise"
JitterFault(praat) == praat.pp.k = "ok" /\ praat.pp.v > 1 /\ praat.jitter.k = "raise"
ShimmerFault(praat) == praat.pp.k = "ok" /\ praat.pp.v > 1 /\ praat.shimmer.k = "raise"
PerturbationFault(praat) ==
    praat.pp.k = "raise" \/ JitterFault(praat) \/ ShimmerFault(praat)
OneFault(praat) ==
    /\ praat.sound.k = "ok"
    /\ Cardinality({x \in {"pitch", "formant", "perturbation"} :
          \/ x = "pitch" /\ PitchFault(praat)
          \/ x = "formant" /\ FormantFault(praat)
          \/ x = "perturbation" /\ PerturbationFault(praat)}) = 1

\* C3: when exactly one of the pitch, formant and perturbation extractors
\* faults, the fields of the other extractors keep the values computed from
\* their own tracks (a formant fault leaves f0_mean, f0_range and speech_rate
\* as the pitch track gives them; a jitter fault leaves shimmer as computed),
\* and the fields of the faulting one are 0.
C3_FaultIsolation ==
    (PraatReturned /\ OneFault(fnIn.praat)) =>
        LET praat == fnIn.praat
            ret == fnOut.ret
        IN  /\ IF PitchFault(praat)
               THEN ret.f0_mean = Zero /\ ret.f0_range = Zero /\ ret.speech_rate = Zero
               ELSE /\ ret.f0_mean = F0Mean(F0Values(praat))
                    /\ ret.f0_range = F0Range(F0Values(praat))
                    /\ ret.speech_rate = SpeechRate(Voiced(praat), praat.sound.v)
            /\ IF FormantFault(praat)
               THEN ret.f1 = Zero /\ ret.f2 = Zero
               ELSE ret.f1 = FormantMean(praat, "f1") /\ ret.f2 = FormantMean(praat, "f2")
            /\ IF praat.pp.k = "ok" /\ praat.pp.v > 1
               THEN /\ ret.jitter = Percent(praat.jitter)
                    /\ ret.shimmer = Percent(praat.shimmer)
               ELSE ret.jitter = Zero /\ ret.shimmer = Zero

\* C4: the speech_rate returned is 0 when no frame is voiced and lies in
\* [80, 200] otherwise, for every voiced-frame count and clip duration.
C4_SpeechRateClamped ==
    PraatReturned =>
        LET rate == fnOut.ret.speech_rate
        IN  IF Voiced(fnIn.praat) = 0 THEN rate = Zero
            ELSE RLeq(F(80, 1), rate) /\ RLeq(rate, F(200, 1))

\* C6: when the frame loop finds no voiced frame, f0_mean, f0_range, jitter,
\* shimmer and speech_rate are all 0, whatever the PointProcess holds.
C6_UnvoicedAllZero ==
    (/\ PraatReturned
     /\ fnIn.praat.sound.k = "ok"
     /\ fnIn.praat.pitch.k = "ok"
     /\ Voiced(fnIn.praat) = 0) =>
        /\ fnOut.ret.f0_mean = Zero
        /\ fnOut.ret.f0_range = Zero
        /\ fnOut.ret.jitter = Zero
        /\ fnOut.ret.shimmer = Zero
        /\ fnOut.ret.speech_rate = Zero


\* ---------------------------------------------------- compute_mfcc alone
MfccReturned == fnOut.done
\* The magnitudes compute_mfcc keeps: the first floor(N/2) of the spectrum.
Magnitudes == IF fnIn.fft.k = "ok" THEN SubSeq(fnIn.fft.v, 1, fnIn.N \div 2) ELSE <<>>
\* Band i of the claim, [floor(i*M/K), floor((i+1)*M/K)), as a set of 0-based
\* indices: j is in it iff i*M < (j+1)*K <= (i+1)*M.
Band(i, M, K) == {j \in 0..(M - 1) : i * M < (j + 1) * K /\ (j + 1) * K <= (i + 1) * M}
BandSum(mag, band) == SumSeq([q \in 1..Len(mag) |-> IF q - 1 \in band THEN mag[q] ELSE 0])

\* C5: compute_mfcc returns exactly num_coeffs floats for every input length;
\* a coefficient of an empty band is 0, and when the transform raises (as it
\* does on the empty input) the result is the zero vector.
C5_MfccLength ==
    MfccReturned =>
        LET K == fnIn.num_coeffs
            M == Len(Magnitudes)
        IN  /\ DOMAIN fnOut.ret = 1..K
            /\ \A i \in 1..K : IsFloat(fnOut.ret[i])
            /\ \A i \in 1..K : Band(i - 1, M, K) = {} => fnOut.ret[i] = Zero
            /\ fnIn.fft.k = "raise" => \A i \in 1..K : fnOut.ret[i] = Zero
\* Fewer than 2 * num_coeffs samples: a band is empty, another is not.
C5_Witness ==
    /\ MfccReturned
    /\ fnIn.fft.k = "ok"
    /\ fnIn.N < 2 * fnIn.num_coeffs
    /\ \E i, j \in 1..fnIn.num_coeffs :
          /\ Band(i - 1, Len(Magnitudes), fnIn.num_coeffs) = {}
          /\ fnOut.ret[j] # Zero

\* C8: the bands are contiguous, ascending, disjoint, cover 0..M-1 once, differ
\* in width by at most one, and coefficient i is the mean of the magnitudes of
\* band i (0 for an empty band).
C8_BandPartition ==
    (MfccReturned /\ fnIn.fft.k = "ok") =>
        LET K == fnIn.num_coeffs
            mag == Magnitudes
            M == Len(mag)
        IN  /\ \A j \in 0..(M - 1) : Cardinality({i \in 0..(K - 1) : j \in Band(i, M, K)}) = 1
            /\ \A i \in 0..(K - 1) : \A a, b \in Band(i, M, K) :
                  \A j \in 0..(M - 1) : (a <= j /\ j <= b) => j \in Band(i, M, K)
            /\ \A i, k \in 0..(K - 1) : \A a \in Band(i, M, K), b \in Band(k, M, K) :
                  i < k => a < b
            /\ \A i, k \in 0..(K - 1) :
                  Cardinality(Band(i, M, K)) - Cardinality(Band(k, M, K)) <= 1
            /\ \A i \in 0..(K - 1) :
                  /\ Band(i, M, K) = {j \in 0..(M - 1) :
                        BandStart(i, M, K) <= j /\ j < BandEnd(i, M, K)}
                  /\ IF Band(i, M, K) = {} THEN fnOut.ret[i + 1] = Zero
                     ELSE REq(fnOut.ret[i + 1],
                              F(BandSum(mag, Band(i, M, K)), Cardinality(Band(i, M, K))))
\* Bands of different widths, one of them with unequal magnitudes.
C8_Witness ==
    /\ MfccReturned
    /\ fnIn.fft.k = "ok"
    /\ fnIn.num_coeffs = 3
    /\ Len(Magnitudes) = 5
    /\ fnOut.ret = <<F(1, 1), F(5, 2), F(4, 2)>>


\* ------------------------------------------ compute_basic_features alone
BasicReturned == fnOut.done /\ fnOut.ret.k = "ok"
AllZero(x) == \A k \in 1..Len(x) : x[k].n = 0
\* Pairs of consecutive samples that count as a sign change when a pair with a
\* zero in it counts (zeroCounts) or does not count, whichever the sign of the
\* other sample; a pair of two zeros is no change.
SignChanges(x, zeroCounts) ==
    Cardinality({k \in 1..(Len(x) - 1) :
        \/ x[k].n * x[k + 1].n < 0
        \/ zeroCounts /\ x[k].n * x[k + 1].n = 0 /\ x[k].n # x[k + 1].n})
\* Pairs of consecutive samples of which exactly one is negative.
NegativeFlips(x) ==
    Cardinality({k \in 1..(Len(x) - 1) : (x[k].n < 0) # (x[k + 1].n < 0)})
ZcrBasics ==
    LET x == fnIn.x
        ret == fnOut.ret.v
    IN  /\ Len(x) <= 1 => ret.zcr = Zero
        /\ RLeq(Zero, ret.zcr) /\ RLeq(ret.zcr, F(1, 1))
        /\ AllZero(x) => (ret.zcr.n = 0 /\ ret.rms.n = <<0, 0>>)

\* C10 as stated: zcr is 0 for N <= 1 and else the number of sign changes over
\* N - 1, in [0, 1], 0 on all-zero input (rms 0 too), a zero sample counted the
\* same way next to a sample of either sign.
C10_ZcrSignChanges ==
    BasicReturned =>
        /\ ZcrBasics
        /\ Len(fnIn.x) > 1 =>
              \E zeroCounts \in BOOLEAN :
                 fnOut.ret.v.zcr = F(SignChanges(fnIn.x, zeroCounts), Len(fnIn.x) - 1)
\* C10 amended: the count is of the consecutive pairs of which exactly one
\* sample is negative; zero counts as non-negative, so a zero next to a
\* negative sample is a crossing and a zero next to a positive one is not.
C10_ZcrNegativeFlips ==
    BasicReturned =>
        /\ ZcrBasics
        /\ Len(fnIn.x) > 1 =>
              fnOut.ret.v.zcr = F(NegativeFlips(fnIn.x), Len(fnIn.x) - 1)
\* A zero between a positive and a negative sample: one crossing of two pairs.
C10_Witness ==
    /\ BasicReturned
    /\ Len(fnIn.x) = 3
    /\ fnIn.x[1].n > 0 /\ fnIn.x[2].n = 0 /\ fnIn.x[3].n < 0
    /\ fnOut.ret.v.zcr = F(1, 2)

\* ------------------------------------------------- requests side by side
\* C7: two handled requests that carry the same bytes have the same response,
\* whatever other requests ran before, between or interleaved with them.
C7_Deterministic ==
    \A r1, r2 \in Req :
        (Handled(r1) /\ Handled(r2) /\ upload[r1] = upload[r2]) =>
            response[r1] = response[r2]
\* Two requests with the same bytes and a third with other bytes, all handled
\* with a record.
C7_Witness ==
    \E r1, r2, r3 \in Req :
        /\ r1 # r2
        /\ upload[r1] = upload[r2]
        /\ upload[r3] # upload[r1]
        /\ \A r \in {r1, r2, r3} : Handled(r) /\ IsCompleteRecord(response[r])
        /\ response[r3] # response[r1]

====
